---- MODULE Spec2Model ----
(***************************************************************************)
(* Contextual bigraphs (elsewhere): construction, composition along an     *)
(* interface and grounding, translated from                                *)
(*   src/src/elsewhere/effects/spacelike.py   (CtxBigraph, BigraphInterface)*)
(*   src/src/elsewhere/runners/bigraph.py     (local and global runners)   *)
(*   src/src/elsewhere/runners/algebra.py     (substitute)                 *)
(*                                                                         *)
(* Encoding.                                                               *)
(*   A Python dict is an insertion-ordered association list: a sequence of *)
(*   <<key, value>> pairs with pairwise distinct keys.                     *)
(*   An Operation (named reference) is a record [name, id]: id is the      *)
(*   object identity, name is __name__.  Two references are the same       *)
(*   object iff they are equal records.                                    *)
(*   An expression is one of                                               *)
(*     <<"call", r>>            the Term r() of a reference r              *)
(*     <<"term", op, a, b>>     the Term op(a, b), op a vocabulary symbol  *)
(*     <<"node", h>>            the bg.Node object with handle h           *)
(*     <<"edge", h>>            the bg.Edge object with handle h           *)
(*     <<"Merge", a, b>>        the object bg.Merge([a, b])                *)
(*     <<"Parallel", a, b>>     the object bg.Parallel([a, b])             *)
(*     <<"int", n>>             a Python value that is no bg.Base          *)
(*   bg.Node and bg.Edge objects are mutable; their state lives in the     *)
(*   variable heap, and an expression holds them by handle (by reference). *)
(*                                                                         *)
(* Specifications.                                                         *)
(*   Spec         a session that composes along the interface of the test  *)
(*                and grounds                                              *)
(*   SpecCompose  a session that only composes, along every interface      *)
(*   SpecCtor     a session that only calls the constructor                *)
(*   SpecAssoc    a session that composes three fragments both ways        *)
(*   SpecLocal    a session that applies one vocabulary operation          *)
(***************************************************************************)
EXTENDS Integers, Sequences, FiniteSets, TLC

(***************************************************************************)
(* Python dict operations                                                  *)
(***************************************************************************)
Keys(d) == {d[i][1] : i \in DOMAIN d}

Values(d) == {d[i][2] : i \in DOMAIN d}

KeyList(d) == [i \in DOMAIN d |-> d[i][1]]

Has(d, k) == \E i \in DOMAIN d : d[i][1] = k

Get(d, k) == d[CHOOSE i \in DOMAIN d : d[i][1] = k][2]

\* d[k] = v : an existing key keeps its position, a new key is appended
Put(d, k, v) ==
  IF Has(d, k)
  THEN [i \in DOMAIN d |-> IF d[i][1] = k THEN <<k, v>> ELSE d[i]]
  ELSE Append(d, <<k, v>>)

RECURSIVE DictUnion(_, _)
\* a | b : the keys of a in their order, then the new keys of b; on a key of
\* both, the value of b (the right operand)
DictUnion(a, b) ==
  IF b = <<>> THEN a
  ELSE DictUnion(Put(a, Head(b)[1], Head(b)[2]), Tail(b))

(***************************************************************************)
(* Expressions                                                             *)
(***************************************************************************)
Call(r) == <<"call", r>>

Term(op, a, b) == <<"term", op, a, b>>

Node(h) == <<"node", h>>

Edge(h) == <<"edge", h>>

\* isinstance(x, Term)
IsTerm(x) == x[1] \in {"call", "term"}

\* isinstance(x, bg.Node), isinstance(x, bg.Edge), isinstance(x, bg.Base)
IsNode(x) == x[1] = "node"

IsEdge(x) == x[1] = "edge"

IsBase(x) == x[1] \in {"node", "edge", "Merge", "Parallel"}

\* SpacelikeLocal.as_dict(): the four vocabulary operations
Sig == {"merge", "parallel", "link", "nest"}

RECURSIVE fvsof(_)
\* the references occurring in an expression (the vocabulary operations are
\* kept apart by their encoding, which is the subtraction "- sig")
fvsof(t) ==
  IF t[1] = "call" THEN {t[2]}
  ELSE IF t[1] = "term" THEN fvsof(t[3]) \cup fvsof(t[4])
  ELSE {}

\* fvsof(terms.values()) - sig
fvsofLayer(layer) == UNION {fvsof(layer[i][2]) : i \in DOMAIN layer}

(***************************************************************************)
(* The backend objects (bigraph.bigraph) and the local runners             *)
(***************************************************************************)
\* heap.nodes[h] = [ports, sites] of the bg.Node h, heap.edges[h] = the nodes
\* linked to the bg.Edge h.  Node.link, Node.nest and Edge.link update the
\* receiver in place: BigraphHorizontalLocal.link(edge, node) discards the
\* result of edge.link(node) and returns the edge itself, and the tests
\* deep-copy every argument before applying an operation a second time.
NodeLink(heap, n, e) ==
  [heap EXCEPT !.nodes[n].ports = Append(@, e)]

EdgeLink(heap, e, n) ==
  [heap EXCEPT !.edges[e] = Append(@, n)]

NodeNest(heap, n, inner) ==
  [heap EXCEPT !.nodes[n].sites = Append(@, inner)]

\* the expression op(a, b) built when no handler interprets op (the default
\* rule of an Operation whose body raises NotImplementedError)
Residual(op, a, b) == Term(op, a, b)

\* BigraphHorizontalLocal.merge, dispatched on (bg.Base, bg.Base)
merge(left, right, heap) ==
  IF IsBase(left) /\ IsBase(right)
  THEN <<<<"Merge", left, right>>, heap>>
  ELSE <<Residual("merge", left, right), heap>>

\* BigraphHorizontalLocal.parallel, dispatched on (bg.Base, bg.Base)
parallel(left, right, heap) ==
  IF IsBase(left) /\ IsBase(right)
  THEN <<<<"Parallel", left, right>>, heap>>
  ELSE <<Residual("parallel", left, right), heap>>

\* a link with the (bg.Node, bg.Edge) rule only
link_node_first(x, y, heap) ==
  IF IsNode(x) /\ IsEdge(y) THEN <<x, NodeLink(heap, x[2], y[2])>>
  ELSE <<Residual("link", x, y), heap>>

\* BigraphHorizontalLocal.link, dispatched on (bg.Node, bg.Edge) and on
\* (bg.Edge, bg.Node)
link(x, y, heap) ==
  IF IsNode(x) /\ IsEdge(y) THEN <<x, NodeLink(heap, x[2], y[2])>>
  ELSE IF IsEdge(x) /\ IsNode(y) THEN <<x, EdgeLink(heap, x[2], y[2])>>
  ELSE <<Residual("link", x, y), heap>>

\* BigraphVerticalLocal.nest, dispatched on (bg.Node, bg.Base)
nest(node, inner, heap) ==
  IF IsNode(node) /\ IsBase(inner) THEN <<node, NodeNest(heap, node[2], inner)>>
  ELSE <<Residual("nest", node, inner), heap>>

\* BigraphLocal.as_dict(): the handler of each vocabulary operation
ApplyLocal(op, a, b, heap) ==
  CASE op = "merge" -> merge(a, b, heap)
    [] op = "parallel" -> parallel(a, b, heap)
    [] op = "link" -> link(a, b, heap)
    [] op = "nest" -> nest(a, b, heap)

RECURSIVE unfold(_, _)
\* Base.unfold(): the canonical form bare_equal compares; a node shows its
\* control, the edges of its ports and its unfolded content, an edge its
\* symbol and the nodes linked to it
unfold(v, heap) ==
  CASE v[1] = "node" ->
         <<"node", v[2], heap.nodes[v[2]].ports,
           [i \in DOMAIN heap.nodes[v[2]].sites |->
              unfold(heap.nodes[v[2]].sites[i], heap)]>>
    [] v[1] = "edge" -> <<"edge", v[2], heap.edges[v[2]]>>
    [] v[1] \in {"Merge", "Parallel"} ->
         <<v[1], unfold(v[2], heap), unfold(v[3], heap)>>
    [] v[1] = "term" ->
         <<"term", v[2], unfold(v[3], heap), unfold(v[4], heap)>>
    [] OTHER -> v

(***************************************************************************)
(* Evaluation of expressions (effectful: evaluate, handler, deffn)         *)
(***************************************************************************)
RECURSIVE EvalSym(_, _)
\* evaluate(t) under an interpretation that maps the references of subs to
\* their values and interprets no vocabulary operation: every other node of
\* the tree is rebuilt as it was
EvalSym(t, subs) ==
  IF t[1] = "call" THEN (IF Has(subs, t[2]) THEN Get(subs, t[2]) ELSE t)
  ELSE IF t[1] = "term"
       THEN Residual(t[2], EvalSym(t[3], subs), EvalSym(t[4], subs))
       ELSE t

RECURSIVE EvalLocal(_, _, _)
\* evaluate(t) under handler(BigraphLocal.as_dict()) and the substitution
\* subs: arguments first, left to right, then the handler of the operation.
\* Returns <<result, heap after the handlers ran>>.
EvalLocal(t, subs, heap) ==
  IF t[1] = "call"
  THEN <<(IF Has(subs, t[2]) THEN Get(subs, t[2]) ELSE t), heap>>
  ELSE IF t[1] = "term"
       THEN LET ra == EvalLocal(t[3], subs, heap)
                rb == EvalLocal(t[4], subs, ra[2])
            IN ApplyLocal(t[2], ra[1], rb[1], rb[2])
       ELSE <<t, heap>>

(***************************************************************************)
(* substitute (runners/algebra.py)                                         *)
(***************************************************************************)
\* {k: v for (k, v) in pairs}: a later pair replaces an earlier one with the
\* same key
DictOf(pairs) == DictUnion(<<>>, pairs)

\* {v.__name__: v for v in env.keys()}
NamedOps(env) == DictOf([i \in DOMAIN env |-> <<env[i][1].name, env[i][1]>>])

\* {v.__name__: e for (v, e) in env.items()}
NamedVals(env) == DictOf([i \in DOMAIN env |-> <<env[i][1].name, env[i][2]>>])

\* deffn(trm, **_args)(**_vals): the keyword k binds the reference _args[k]
\* to the value _vals[k]
KeywordSubs(_args, _vals) ==
  DictOf([i \in DOMAIN _vals |-> <<Get(_args, _vals[i][1]), _vals[i][2]>>])

\* substitute(prog, args, vals) with env None, under no local handler, for
\* the single entry {None: trm}
substituteSym(trm, args, vals) == EvalSym(trm, KeywordSubs(args, vals))

\* the substitution substitute(prog, args, vals, env) applies when env is a
\* dict: names of args and of the references of env, then the values of both
EnvSubs(args, vals, env) ==
  KeywordSubs(DictUnion(args, NamedOps(env)), DictUnion(vals, NamedVals(env)))

RECURSIVE substituteItems(_, _, _)
\* {v: deffn(trm, **_args)(**_vals) for (v, trm) in prog.items()} under the
\* local handlers: <<the new dict, the heap after it>>
substituteItems(prog, subs, heap) ==
  IF prog = <<>> THEN <<(<<>>), heap>>
  ELSE LET r == EvalLocal(Head(prog)[2], subs, heap)
           rest == substituteItems(Tail(prog), subs, r[2])
       IN <<(<<(<<Head(prog)[1], r[1]>>)>>) \o rest[1], rest[2]>>

substitute(prog, args, vals, env, heap) ==
  substituteItems(prog, EnvSubs(args, vals, env), heap)

(***************************************************************************)
(* CtxBigraph and BigraphInterface (effects/spacelike.py)                  *)
(***************************************************************************)
CtxBigraph(name, inner_sites, inner_links, outer_sites, outer_links, root, bound_sites, bound_edges, bound_terms) ==
  [name |-> name, inner_sites |-> inner_sites, inner_links |-> inner_links,
   outer_sites |-> outer_sites, outer_links |-> outer_links, root |-> root,
   bound_sites |-> bound_sites, bound_edges |-> bound_edges,
   bound_terms |-> bound_terms]

BigraphInterface(sites, links) == [sites |-> sites, links |-> links]

\* CtxBigraph.layers
layers(f) == f.bound_terms \o <<f.bound_sites>>

\* a closedness test that every fragment passes
closed_unchecked(f) == TRUE

\* CtxBigraph.closed
closed(f) == f.outer_links = <<>>

\* the port names of the four interface fields, in field order
InterfaceNames(f) ==
  KeyList(f.inner_sites) \o KeyList(f.inner_links)
    \o KeyList(f.outer_sites) \o KeyList(f.outer_links)

\* the references of the four interface fields
intf_args(f) ==
  Values(f.inner_sites) \cup Values(f.inner_links)
    \cup Values(f.outer_sites) \cup Values(f.outer_links)

\* the set the loop of __post_init__ holds in bound_args when it checks
\* layer i of ls: empty for the first layer, then the keys of layer i - 1
bound_args(ls, i) == IF i = 1 THEN {} ELSE Keys(ls[i - 1])

\* the assertion on layer i of ls, given the interface references
LayerInScope(ls, intf, i) ==
  LET bound == bound_args(ls, i)
  IN \A r \in fvsofLayer(ls[i]) : r \in intf \/ r \in bound

\* "check types": the root is a Term and so is every value of bound_sites
TypesOK(f) ==
  /\ IsTerm(f.root)
  /\ \A t \in Values(f.bound_sites) : IsTerm(t)
  /\ \A e \in Values(f.bound_edges) : IsEdge(e)

\* "check unique names"
UniqueNames(f) ==
  LET names == InterfaceNames(f)
  IN Cardinality({names[i] : i \in DOMAIN names}) = Len(names)

\* "check free variables"
FreeVariablesOK(f) ==
  LET ls == layers(f)
      intf == intf_args(f)
      sites == Keys(f.bound_sites)
  IN /\ Values(f.outer_sites) \subseteq sites
     /\ fvsof(f.root) \subseteq sites
     /\ \A i \in DOMAIN ls : LayerInScope(ls, intf, i)

\* CtxBigraph.__post_init__ raises no AssertionError
PostInit(f) == TypesOK(f) /\ UniqueNames(f) /\ FreeVariablesOK(f)

(***************************************************************************)
(* BigraphVerticalGlobal (runners/bigraph.py)                              *)
(***************************************************************************)
\* the result of an operation that raised instead of returning
NoFrag == CtxBigraph("", <<>>, <<>>, <<>>, <<>>, <<"int", 0>>, <<>>, <<>>, <<>>)

NoValue == <<"int", 0>>

\* match_link(e) finds interface.links[e] and outer.inner_links[...]
match_link_found(outer, interface, e) ==
  /\ Has(interface.links, e)
  /\ Has(outer.inner_links, Get(interface.links, e))

match_link(outer, interface, e) ==
  Get(outer.inner_links, Get(interface.links, e))

\* match_site(s) finds interface.sites[s] and inner.outer_sites[...]
match_site_found(interface, inner, s) ==
  /\ Has(interface.sites, s)
  /\ Has(inner.outer_sites, Get(interface.sites, s))

match_site(interface, inner, s) ==
  Get(inner.outer_sites, Get(interface.sites, s))

\* every dict lookup of compose finds its key (no KeyError)
LookupsFound(outer, interface, inner) ==
  /\ \A e \in Keys(inner.outer_links) : match_link_found(outer, interface, e)
  /\ \A s \in Keys(outer.inner_sites) :
       /\ match_site_found(interface, inner, s)
       /\ Has(inner.bound_sites, match_site(interface, inner, s))

\* bound_links = {e: match_link(e)() for e in inner.outer_links.keys()}
bound_links(outer, interface, inner) ==
  [i \in DOMAIN inner.outer_links |->
     <<inner.outer_links[i][1],
       Call(match_link(outer, interface, inner.outer_links[i][1]))>>]

\* bind_site(s), given bound_links
bind_site(links, interface, inner, s) ==
  substituteSym(Get(inner.bound_sites, match_site(interface, inner, s)),
                inner.outer_links, links)

\* the union with the operands the other way round
merged_edges_inner_wins(outer, inner) ==
  DictUnion(outer.bound_edges, inner.bound_edges)

\* bound_edges = inner.bound_edges | outer.bound_edges
merged_edges(outer, inner) == DictUnion(inner.bound_edges, outer.bound_edges)

\* bind_edges = partial(evaluate, intp=bound_edges): a reference bound there
\* is replaced by the edge its producer returns
bind_edges(bound_edges, t) == EvalSym(t, bound_edges)

\* {sv: bind_site(s) for (s, sv) in outer.inner_sites.items()}
coupling_layer(outer, interface, inner) ==
  LET links == bound_links(outer, interface, inner)
  IN [i \in DOMAIN outer.inner_sites |->
        <<outer.inner_sites[i][2],
          bind_site(links, interface, inner, outer.inner_sites[i][1])>>]

\* {f"{prefix}.{n}": v for (n, v) in d.items()}
Qualified(prefix, d) ==
  [i \in DOMAIN d |-> <<prefix \o "." \o d[i][1], d[i][2]>>]

\* the layers handed over by compose, before and after bind_edges
composed_layers(outer, interface, inner) ==
  inner.bound_terms \o <<coupling_layer(outer, interface, inner)>>
    \o outer.bound_terms

rewrite_layer(bound_edges, terms) ==
  [i \in DOMAIN terms |-> <<terms[i][1], bind_edges(bound_edges, terms[i][2])>>]

\* the layers with only those of inner and the coupling layer rewritten
composed_terms_outer_kept(outer, interface, inner) ==
  LET bound_edges == merged_edges(outer, inner)
      ls == inner.bound_terms \o <<coupling_layer(outer, interface, inner)>>
  IN [k \in DOMAIN ls |-> rewrite_layer(bound_edges, ls[k])]
       \o outer.bound_terms

composed_terms(outer, interface, inner) ==
  LET ls == composed_layers(outer, interface, inner)
      bound_edges == merged_edges(outer, inner)
  IN [k \in DOMAIN ls |-> rewrite_layer(bound_edges, ls[k])]

\* constructor arguments with bound_sites rewritten under the merged edge
\* bindings like the layers of bound_terms
composite_rewritten(outer, interface, inner) ==
  CtxBigraph(outer.name \o "*" \o inner.name,
             Qualified(inner.name, inner.inner_sites),
             Qualified(inner.name, inner.inner_links),
             Qualified(outer.name, outer.outer_sites),
             Qualified(outer.name, outer.outer_links),
             outer.root,
             rewrite_layer(merged_edges(outer, inner), outer.bound_sites),
             merged_edges(outer, inner),
             composed_terms(outer, interface, inner))

\* the arguments compose passes to the constructor
composite(outer, interface, inner) ==
  CtxBigraph(outer.name \o "*" \o inner.name,
             Qualified(inner.name, inner.inner_sites),
             Qualified(inner.name, inner.inner_links),
             Qualified(outer.name, outer.outer_sites),
             Qualified(outer.name, outer.outer_links),
             outer.root,
             outer.bound_sites,
             merged_edges(outer, inner),
             composed_terms(outer, interface, inner))

\* compose(outer, interface, inner): [ok, err, frag]
compose(outer, interface, inner) ==
  IF ~LookupsFound(outer, interface, inner)
  THEN [ok |-> FALSE, err |-> "KeyError", frag |-> NoFrag]
  ELSE LET made == composite(outer, interface, inner)
       IN IF ~PostInit(made)
          THEN [ok |-> FALSE, err |-> "AssertionError", frag |-> NoFrag]
          ELSE [ok |-> TRUE, err |-> "", frag |-> made]

\* args = prog.inner_sites | prog.inner_links
ground_args(prog) == DictUnion(prog.inner_sites, prog.inner_links)

\* the three assertions that open ground
ground_accepts(prog, vals) ==
  /\ \A v \in Values(vals) : IsBase(v)
  /\ closed(prog)
  /\ Keys(ground_args(prog)) \subseteq Keys(vals)

RECURSIVE ground_layers(_, _, _, _, _)
\* for layer in prog.layers: env = substitute(layer, args, vals, env)
\* returns <<env after the last layer, heap>>
ground_layers(ls, args, vals, env, heap) ==
  IF ls = <<>> THEN <<env, heap>>
  ELSE LET r == substitute(Head(ls), args, vals, env, heap)
       IN ground_layers(Tail(ls), args, vals, r[1], r[2])

\* ground(prog, vals) on the heap: [ok, value, heap]
ground(prog, vals, heap) ==
  IF ~ground_accepts(prog, vals)
  THEN [ok |-> FALSE, value |-> NoValue, heap |-> heap]
  ELSE LET e == ground_layers(layers(prog), ground_args(prog), vals, <<>>, heap)
           r == EvalLocal(prog.root,
                          EnvSubs(ground_args(prog), vals, e[1]), e[2])
       IN [ok |-> TRUE, value |-> r[1], heap |-> r[2]]

(***************************************************************************)
(* The fragments and interfaces the operations are applied to              *)
(***************************************************************************)
\* defop(tp, name=n): a fresh reference; id stands for the object identity
R(name, id) == [name |-> name, id |-> id]

\* the nodes big("v0") .. and the edges bg.Edge("e0") .. of the test, and
\* those of the three-fragment chain A, B, C
NodeHandles ==
  {"v0", "v1", "v2", "v3", "v4", "v5", "a", "b", "b2", "c", "d", "w"}

EdgeHandles == {"e0", "e1", "e2", "ea", "eb", "eb2", "ed", "ew"}

\* every node and edge as constructed: no port, no content, no linked node
FreshHeap ==
  [nodes |-> [h \in NodeHandles |-> [ports |-> <<>>, sites |-> <<>>]],
   edges |-> [h \in EdgeHandles |-> <<>>]]

\* TestBigraphGlobal.H: the outer contextual bigraph of the test
Hp0 == R("p0", 1)
Hp1 == R("p1", 2)
Hp2 == R("p2", 3)
Hx0 == R("x0", 4)
Hx1 == R("x1", 5)
Hq0 == R("q0", 6)
Hq1 == R("q1", 7)

H ==
  CtxBigraph("H",
    << <<"p0", Hp0>>, <<"p1", Hp1>>, <<"p2", Hp2>> >>,
    << <<"x0", Hx0>>, <<"x1", Hx1>> >>,
    << <<"q0", Hq0>>, <<"q1", Hq1>> >>,
    <<>>,
    Term("parallel", Call(Hq0), Call(Hq1)),
    << <<Hq0, Term("nest", Term("link", Node("v0"), Edge("e0")),
                   Term("merge", Call(Hp0),
                        Term("nest", Node("v2"), Call(Hp1))))>>,
       <<Hq1, Term("nest", Term("link", Term("link", Node("v4"), Edge("e0")),
                                Edge("e2")),
                   Call(Hp2))>> >>,
    << <<Hx0, Edge("e0")>>, <<Hx1, Edge("e2")>> >>,
    <<>>)

\* TestBigraphGlobal.F: the inner contextual bigraph of the test
Fq0 == R("q0", 11)
Fq1 == R("q1", 12)
Fq2 == R("q2", 13)
Fy0 == R("y0", 14)
Fy1 == R("y1", 15)

F ==
  CtxBigraph("F",
    <<>>,
    <<>>,
    << <<"q0", Fq0>>, <<"q1", Fq1>>, <<"q2", Fq2>> >>,
    << <<"y0", Fy0>>, <<"y1", Fy1>> >>,
    Term("parallel", Call(Fq0), Term("parallel", Call(Fq1), Call(Fq2))),
    << <<Fq0, Term("link", Term("link", Node("v1"), Call(Fy0)), Edge("e1"))>>,
       <<Fq1, Term("link", Term("link", Node("v3"), Edge("e1")), Call(Fy1))>>,
       <<Fq2, Term("link", Node("v5"), Call(Fy1))>> >>,
    <<>>,
    <<>>)

\* TestBigraphGlobal.I: the interface between F and H
I ==
  BigraphInterface(
    << <<"p0", "q0">>, <<"p1", "q1">>, <<"p2", "q2">> >>,
    << <<"y0", "x0">>, <<"y1", "x1">> >>)

\* TestBigraphGlobal.g: the expected ground bigraph
\*   v0{e0}.(v1{e0,e1} | v2.v3{e1,e2}) || v4{e0,e2}.v5{e2}
\* in the canonical form of unfold
g ==
  <<"Parallel",
    <<"node", "v0", <<"e0">>,
      << <<"Merge", <<"node", "v1", <<"e0", "e1">>, <<>> >>,
           <<"node", "v2", <<>>,
             << <<"node", "v3", <<"e1", "e2">>, <<>> >> >> >> >> >> >>,
    <<"node", "v4", <<"e0", "e2">>,
      << <<"node", "v5", <<"e2">>, <<>> >> >> >> >>

\* H with the content of q0 split over two layers: the first layer binds t
\* to the subterm nest(v2, p1()), bound_sites reads t and the sites p0, p2
Ht == R("t", 8)

H2 ==
  [H EXCEPT
     !.name = "H2",
     !.bound_terms = << << <<Ht, Term("nest", Node("v2"), Call(Hp1))>> >> >>,
     !.bound_sites =
        << <<Hq0, Term("nest", Term("link", Node("v0"), Edge("e0")),
                       Term("merge", Call(Hp0), Call(Ht)))>>,
           <<Hq1, Term("nest", Term("link", Term("link", Node("v4"),
                                                 Edge("e0")), Edge("e2")),
                       Call(Hp2))>> >>]

\* H with every site read in a first layer and one more port, the outer
\* link z, which bound_edges ties to the edge e2: the first layer links v4
\* through z instead of e2; bound_sites reads the first layer only
Hu == R("u", 9)
Hz == R("z", 10)

H3 ==
  [H EXCEPT
     !.name = "H3",
     !.outer_links = << <<"z", Hz>> >>,
     !.bound_edges = << <<Hx0, Edge("e0")>>, <<Hx1, Edge("e2")>>,
                        <<Hz, Edge("e2")>> >>,
     !.bound_terms =
        << << <<Ht, Term("merge", Call(Hp0),
                         Term("nest", Node("v2"), Call(Hp1)))>>,
              <<Hu, Term("nest", Term("link", Term("link", Node("v4"),
                                                   Edge("e0")), Call(Hz)),
                         Call(Hp2))>> >> >>,
     !.bound_sites =
        << <<Hq0, Term("nest", Term("link", Node("v0"), Edge("e0")),
                       Call(Ht))>>,
           <<Hq1, Call(Hu)>> >>]

\* H2 with v2 linked through the inner link x1 in its first layer
H4 ==
  [H2 EXCEPT
     !.name = "H4",
     !.bound_terms =
        << << <<Ht, Term("nest", Term("link", Node("v2"), Call(Hx1)),
                         Call(Hp1))>> >> >>]

\* the three-fragment chain: A is closed, B has both interfaces, C has an
\* empty inner interface; every fragment names its ports p, x, q, y
Ap == R("p", 21)
Ax == R("x", 22)
Aq == R("q", 23)
Bp == R("p", 31)
Bx == R("x", 32)
Bq == R("q", 33)
By == R("y", 34)
Cq == R("q", 41)
Cy == R("y", 42)

A ==
  CtxBigraph("A",
    << <<"p", Ap>> >>, << <<"x", Ax>> >>, << <<"q", Aq>> >>, <<>>,
    Call(Aq),
    << <<Aq, Term("nest", Term("link", Node("a"), Edge("ea")), Call(Ap))>> >>,
    << <<Ax, Edge("ea")>> >>,
    <<>>)

B ==
  CtxBigraph("B",
    << <<"p", Bp>> >>, << <<"x", Bx>> >>, << <<"q", Bq>> >>, << <<"y", By>> >>,
    Call(Bq),
    << <<Bq, Term("nest", Term("link", Node("b"), Call(By)), Call(Bp))>> >>,
    << <<Bx, Edge("eb")>> >>,
    <<>>)

C ==
  CtxBigraph("C",
    <<>>, <<>>, << <<"q", Cq>> >>, << <<"y", Cy>> >>,
    Call(Cq),
    << <<Cq, Term("link", Node("c"), Call(Cy))>> >>,
    <<>>,
    <<>>)

\* the interface that couples two neighbours of the chain
I0 == BigraphInterface(<< <<"p", "q">> >>, << <<"y", "x">> >>)

\* a second middle fragment, with references and objects of its own
B2p == R("p", 51)
B2x == R("x", 52)
B2q == R("q", 53)
B2y == R("y", 54)

B2 ==
  CtxBigraph("B2",
    << <<"p", B2p>> >>, << <<"x", B2x>> >>, << <<"q", B2q>> >>,
    << <<"y", B2y>> >>,
    Call(B2q),
    << <<B2q, Term("nest", Term("link", Node("b2"), Call(B2y)), Call(B2p))>> >>,
    << <<B2x, Edge("eb2")>> >>,
    <<>>)

\* B with b linked to its own inner link x as well
Bv ==
  [B EXCEPT
     !.name = "Bv",
     !.bound_sites =
        << <<Bq, Term("nest", Term("link", Term("link", Node("b"), Call(By)),
                                   Call(Bx)),
                      Call(Bp))>> >>]

\* a closed fragment with no inner interface whose only site holds an edge
\* linked to a node, the (bg.Edge, bg.Node) form of link
Eq == R("q", 61)

E ==
  CtxBigraph("E",
    <<>>, <<>>, << <<"q", Eq>> >>, <<>>,
    Call(Eq),
    << <<Eq, Term("link", Edge("ed"), Node("d"))>> >>,
    <<>>,
    <<>>)

\* H with v0 linked through its inner link x0 instead of the edge e0
Hx ==
  [H EXCEPT
     !.name = "Hx",
     !.bound_sites =
        << <<Hq0, Term("nest", Term("link", Node("v0"), Call(Hx0)),
                       Term("merge", Call(Hp0),
                            Term("nest", Node("v2"), Call(Hp1))))>>,
           <<Hq1, Term("nest", Term("link", Term("link", Node("v4"),
                                                 Edge("e0")), Edge("e2")),
                       Call(Hp2))>> >>]

\* constructor arguments with three layers: the first binds t, the second
\* binds u, bound_sites binds the outer site q; p is an inner site and z is
\* bound nowhere.  x1, x2, x3 are the expressions of the three layers.
Kp == R("p", 71)
Kq == R("q", 72)
Kt == R("t", 73)
Ku == R("u", 74)
Kz == R("z", 75)

Chain(x1, x2, x3, root) ==
  CtxBigraph("K",
    << <<"p", Kp>> >>, <<>>, << <<"q", Kq>> >>, <<>>,
    root,
    << <<Kq, x3>> >>,
    <<>>,
    << << <<Kt, x1>> >>, << <<Ku, x2>> >> >>)

ChainLeaves == {Call(Kp), Call(Kq), Call(Kt), Call(Ku), Call(Kz)}

ChainExprs ==
  ChainLeaves \cup {Term("nest", Node("a"), Call(Kp)),
                    Term("merge", Call(Kt), Call(Ku)),
                    Term("link", Node("a"), Edge("ea"))}

ChainRoots == {Call(Kq), Call(Kt), Call(Kz)}

ChainFamily ==
  {Chain(x1, x2, x3, r) :
     x1 \in ChainExprs, x2 \in ChainExprs, x3 \in ChainExprs, r \in ChainRoots}

\* constructor arguments that break one of the other checks
DupNames == [A EXCEPT !.name = "Dup", !.inner_links = << <<"p", Ax>> >>]

Uncovered == [A EXCEPT !.name = "Unc", !.bound_sites = <<>>, !.root = Call(Ap)]

BareSite == [E EXCEPT !.name = "Bare", !.bound_sites = << <<Eq, Node("d")>> >>]

\* interfaces that do not fit H and F: p2 is not coupled; p0 is coupled to a
\* name F does not have; y1 is coupled to a name H does not have; one more
\* site and one more link than H and F have
IMissing == [I EXCEPT !.sites = << <<"p0", "q0">>, <<"p1", "q1">> >>]

IBadSite == [I EXCEPT !.sites = << <<"p0", "q9">>, <<"p1", "q1">>,
                                   <<"p2", "q2">> >>]

IBadLink == [I EXCEPT !.links = << <<"y0", "x0">>, <<"y1", "x9">> >>]

IExtra ==
  BigraphInterface(Append(I.sites, <<"p9", "q9">>),
                   Append(I.links, <<"y9", "x9">>))

\* F built on the reference x0 of H: x0 is an inner link of Fe too, Fe ties
\* it to the edge e1 where H ties it to e0, and v1 is linked through it
Fe ==
  [F EXCEPT
     !.name = "Fe",
     !.inner_links = << <<"x0", Hx0>> >>,
     !.bound_edges = << <<Hx0, Edge("e1")>> >>,
     !.bound_sites =
        << <<Fq0, Term("link", Term("link", Node("v1"), Call(Fy0)),
                       Call(Hx0))>>,
           <<Fq1, Term("link", Term("link", Node("v3"), Edge("e1")),
                       Call(Fy1))>>,
           <<Fq2, Term("link", Node("v5"), Call(Fy1))>> >>]

\* a closed fragment with two bound_terms layers whose first layer binds
\* the reference of its own inner site p; bound_sites reads p two layers
\* later
Sp == R("p", 81)
St == R("t", 82)
Sq == R("q", 83)

Sh ==
  CtxBigraph("Sh",
    << <<"p", Sp>> >>, <<>>, << <<"q", Sq>> >>, <<>>,
    Call(Sq),
    << <<Sq, Term("parallel", Call(St), Call(Sp))>> >>,
    <<>>,
    << << <<Sp, Term("link", Node("a"), Edge("ea"))>> >>,
       << <<St, Term("nest", Node("c"), Call(Sp))>> >> >>)

\* a closed fragment whose bound_terms layer binds a reference that is
\* named p like the inner site and is another reference; bound_sites reads
\* both
Np == R("p", 91)
Nt == R("p", 92)
Nq == R("q", 93)

Nm ==
  CtxBigraph("Nm",
    << <<"p", Np>> >>, <<>>, << <<"q", Nq>> >>, <<>>,
    Call(Nq),
    << <<Nq, Term("nest", Call(Nt), Call(Np))>> >>,
    <<>>,
    << << <<Nt, Term("link", Node("b2"), Edge("eb2"))>> >> >>)

\* a closed fragment with no inner interface whose bound_sites reads its
\* own key, the reference of the outer site q
Rq == R("q", 95)

Sr ==
  CtxBigraph("Sr",
    <<>>, <<>>, << <<"q", Rq>> >>, <<>>,
    Call(Rq),
    << <<Rq, Term("nest", Term("link", Node("d"), Edge("ed")), Call(Rq))>> >>,
    <<>>,
    <<>>)

(***************************************************************************)
(* The operations as steps of a session                                    *)
(***************************************************************************)
\* how deep a session nests compositions and how many times it grounds
MaxDepth == 2

MaxGrounds == 2

VARIABLES
  cur,      \* the composite the session made last (NoFrag before the first)
  depth,    \* how many compositions deep cur is nested
  heap,     \* the state of the bg.Node and bg.Edge objects
  last,     \* the last call: its arguments and what it returned or raised
  n         \* the number of successful ground calls

vars == <<cur, depth, heap, last, n>>

\* the fragments a session constructs before anything else, all accepted by
\* the constructor: those it composes and those it grounds
Pool == {H, H2, F, B}

GroundPool == Pool \cup {E, Sh, Nm, Sr}

WidePool == {H, H2, H3, H4, Hx, F, Fe, A, B, C}

\* the interfaces a session composes along
Interfaces == {I, I0, IMissing, IBadSite, IBadLink, IExtra}

\* the fragments at hand: the constructed ones and the last composite
AtHand(pool) == pool \cup (IF depth > 0 THEN {cur} ELSE {})

DepthOf(f) == IF depth > 0 /\ f = cur THEN depth ELSE 0

\* the value maps a session grounds prog with: one value for every inner
\* port (a node for a site, an edge for a link), the same without its last
\* entry, and the empty map
FullVals(prog) ==
  [i \in DOMAIN prog.inner_sites |-> <<prog.inner_sites[i][1], Node("w")>>]
    \o [i \in DOMAIN prog.inner_links |-> <<prog.inner_links[i][1], Edge("ew")>>]

ValMaps(prog) ==
  {FullVals(prog), <<>>}
    \cup (IF FullVals(prog) = <<>> THEN {}
          ELSE {SubSeq(FullVals(prog), 1, Len(FullVals(prog)) - 1)})

Init ==
  /\ cur = NoFrag
  /\ depth = 0
  /\ heap = FreshHeap
  /\ last = [op |-> "init", ok |-> TRUE]
  /\ n = 0

\* no call has raised so far: an exception ends the session
Running == last.ok

\* CtxBigraph(...) with the arguments raw; the object is not kept
Attempt(raw) ==
  /\ Running
  /\ last' = [op |-> "construct", ok |-> PostInit(raw), arg |-> raw]
  /\ UNCHANGED <<cur, depth, heap, n>>

RECURSIVE NodesIn(_)
\* the bg.Node objects an expression holds
NodesIn(t) ==
  IF t[1] = "node" THEN {t[2]}
  ELSE IF t[1] = "term" THEN NodesIn(t[3]) \cup NodesIn(t[4])
  ELSE {}

\* the bg.Node objects the expressions of a fragment hold
NodesOf(f) ==
  NodesIn(f.root)
    \cup UNION {NodesIn(t) : t \in UNION {Values(layers(f)[i]) :
                                            i \in DOMAIN layers(f)}}

\* compose(outer, interface, inner) on two fragments at hand that are built
\* from different nodes (a node has one place in a bigraph)
Compose(outer, interface, inner) ==
  LET r == compose(outer, interface, inner)
      d == 1 + (IF DepthOf(outer) > DepthOf(inner) THEN DepthOf(outer)
                ELSE DepthOf(inner))
  IN
  /\ Running
  /\ d <= MaxDepth
  /\ NodesOf(outer) \cap NodesOf(inner) = {}
  /\ cur' = IF r.ok THEN r.frag ELSE cur
  /\ depth' = IF r.ok THEN d ELSE depth
  /\ last' = [op |-> "compose", ok |-> r.ok, err |-> r.err, outer |-> outer,
              interface |-> interface, inner |-> inner, frag |-> r.frag]
  /\ UNCHANGED <<heap, n>>

\* ground(prog, vals) on a fragment at hand
Ground(prog, vals) ==
  LET r == ground(prog, vals, heap) IN
  /\ Running
  /\ r.ok => n < MaxGrounds
  /\ n' = IF r.ok THEN n + 1 ELSE n
  /\ heap' = r.heap
  /\ last' = [op |-> "ground", ok |-> r.ok, prog |-> prog, vals |-> vals,
              value |-> r.value, shown |-> unfold(r.value, r.heap),
              again |-> /\ last.op = "ground"
                        /\ last.prog = prog
                        /\ last.vals = vals,
              before |-> IF last.op = "ground" THEN last.shown ELSE NoValue]
  /\ UNCHANGED <<cur, depth>>

\* a session that composes along the interface of the test and grounds
Next ==
  \/ \E outer \in AtHand(Pool), inner \in AtHand(Pool) : Compose(outer, I, inner)
  \/ \E prog \in AtHand(GroundPool) : \E vals \in ValMaps(prog) :
       Ground(prog, vals)

Spec == Init /\ [][Next]_vars

\* a session that only composes, along every interface
NextCompose ==
  \E outer \in AtHand(WidePool), inner \in AtHand(WidePool) :
    \E interface \in Interfaces : Compose(outer, interface, inner)

SpecCompose == Init /\ [][NextCompose]_vars

\* a session that only calls the constructor
NextCtor ==
  \E raw \in ChainFamily \cup {DupNames, Uncovered, BareSite} : Attempt(raw)

SpecCtor == Init /\ [][NextCtor]_vars

\* the fragments a session composes three at a time
ChainPool == {A, B, Bv, B2, C}

\* an interface towards b with the names of the inner fragment re-qualified
\* as compose(a, i, b) leaves them in the inner interface of a * b
InnerQualified(interface, b) ==
  BigraphInterface(
    [i \in DOMAIN interface.sites |->
       <<b.name \o "." \o interface.sites[i][1], interface.sites[i][2]>>],
    [i \in DOMAIN interface.links |->
       <<interface.links[i][1], b.name \o "." \o interface.links[i][2]>>])

\* an interface from b with the names of the outer fragment re-qualified as
\* compose(b, i, c) leaves them in the outer interface of b * c
OuterQualified(interface, b) ==
  BigraphInterface(
    [i \in DOMAIN interface.sites |->
       <<interface.sites[i][1], b.name \o "." \o interface.sites[i][2]>>],
    [i \in DOMAIN interface.links |->
       <<b.name \o "." \o interface.links[i][1], interface.links[i][2]>>])

\* compose(compose(a, i1, b), i2', c): the second call is not reached when
\* the first one raises
compose_left(a, i1, b, i2, c) ==
  LET ab == compose(a, i1, b)
  IN IF ab.ok THEN compose(ab.frag, InnerQualified(i2, b), c) ELSE ab

\* compose(a, i1', compose(b, i2, c))
compose_right(a, i1, b, i2, c) ==
  LET bc == compose(b, i2, c)
  IN IF bc.ok THEN compose(a, OuterQualified(i1, b), bc.frag) ELSE bc

\* ground(prog, vals) on nodes and edges of its own (deep copies), shown as
\* bare_equal compares it
ground_shown(made) ==
  IF ~made.ok THEN [ok |-> FALSE, shown |-> NoValue]
  ELSE LET r == ground(made.frag, FullVals(made.frag), FreshHeap)
       IN [ok |-> r.ok, shown |-> unfold(r.value, r.heap)]

\* both ways of composing a, b, c along i1, i2 and of grounding the result,
\* as the first thing a session does
Associate(a, i1, b, i2, c) ==
  LET left == compose_left(a, i1, b, i2, c)
      right == compose_right(a, i1, b, i2, c)
  IN
  /\ last.op = "init"
  /\ NodesOf(a) \cap NodesOf(b) = {}
  /\ NodesOf(a) \cap NodesOf(c) = {}
  /\ NodesOf(b) \cap NodesOf(c) = {}
  /\ last' = [op |-> "associate", ok |-> left.ok /\ right.ok,
              a |-> a, i1 |-> i1, b |-> b, i2 |-> i2, c |-> c,
              left |-> left, right |-> right,
              lvalue |-> ground_shown(left), rvalue |-> ground_shown(right)]
  /\ UNCHANGED <<cur, depth, heap, n>>

NextAssoc ==
  \E a \in ChainPool, b \in ChainPool, c \in ChainPool :
    \E i1 \in {I0, I}, i2 \in {I0, I} : Associate(a, i1, b, i2, c)

SpecAssoc == Init /\ [][NextAssoc]_vars

\* the arguments a session applies a vocabulary operation to: nodes, edges,
\* a merge of two nodes, a Python value that is no graph value, and an
\* expression
LocalValues ==
  {Node("v0"), Node("v1"), Edge("e0"), Edge("e1"),
   <<"Merge", Node("v2"), Node("v3")>>, <<"int", 1>>, Call(Hp0)}

\* op(a, b) under handler(BigraphLocal.as_dict()), as the first thing a
\* session does; it nests no node in itself
LocalOp(op, a, b) ==
  LET r == ApplyLocal(op, a, b, heap) IN
  /\ last.op = "init"
  /\ op = "nest" => a # b
  /\ heap' = r[2]
  /\ last' = [op |-> "local", ok |-> TRUE, sym |-> op, a |-> a, b |-> b,
              result |-> r[1], shown |-> unfold(r[1], r[2])]
  /\ UNCHANGED <<cur, depth, n>>

NextLocal ==
  \E op \in Sig : \E a \in LocalValues, b \in LocalValues : LocalOp(op, a, b)

SpecLocal == Init /\ [][NextLocal]_vars

(***************************************************************************)
(* The value of a composition built by hand                                *)
(***************************************************************************)
RECURSIVE Inlined(_, _)
\* the binding chain ls written out: every key of a layer stands for its
\* expression, in which the keys of all earlier layers and the references
\* of subs are written out already
Inlined(ls, subs) ==
  IF ls = <<>> THEN subs
  ELSE Inlined(Tail(ls),
               DictUnion(subs,
                         [i \in DOMAIN Head(ls) |->
                            <<Head(ls)[i][1], EvalSym(Head(ls)[i][2], subs)>>]))

\* H.root with every inner site p of H replaced by the content F gives the
\* site I.sites[p], every outer link y of F replaced by the edge H binds to
\* I.links[y], and every inner link of H replaced by the edge H binds to it
Direct(outer, interface, inner) ==
  LET linkSubs ==
        [i \in DOMAIN inner.outer_links |->
           <<inner.outer_links[i][2],
             Get(outer.bound_edges,
                 match_link(outer, interface, inner.outer_links[i][1]))>>]
      content == Inlined(layers(inner), linkSubs)
      siteSubs ==
        [i \in DOMAIN outer.inner_sites |->
           <<outer.inner_sites[i][2],
             Get(content, match_site(interface, inner, outer.inner_sites[i][1]))>>]
  IN EvalSym(outer.root,
             Inlined(layers(outer), DictUnion(outer.bound_edges, siteSubs)))

\* the graph Direct denotes, built on untouched nodes and edges
DirectValue(outer, interface, inner) ==
  LET r == EvalLocal(Direct(outer, interface, inner), <<>>, FreshHeap)
  IN unfold(r[1], r[2])

\* a closed outer fragment, an inner fragment with an empty inner interface
\* and an interface that pairs every inner site of the outer one with an
\* outer site of the inner one and every outer link of the inner one with
\* an inner link of the outer one, which binds it to an edge
FitsClosed(outer, interface, inner) ==
  /\ outer.outer_links = <<>>
  /\ inner.inner_sites = <<>> /\ inner.inner_links = <<>>
  /\ \A s \in Keys(outer.inner_sites) :
       /\ s \in Keys(interface.sites)
       /\ Get(interface.sites, s) \in Keys(inner.outer_sites)
  /\ \A y \in Keys(inner.outer_links) :
       /\ y \in Keys(interface.links)
       /\ Get(interface.links, y) \in Keys(outer.inner_links)
       /\ Has(outer.bound_edges, match_link(outer, interface, y))

(***************************************************************************)
(* C1                                                                      *)
(***************************************************************************)
\* C1: for a closed outer fragment and an inner fragment with an empty inner
\* interface, coupled by an interface that pairs all their ports, the
\* composition succeeds and grounding it with the empty value map gives the
\* value built by hand from the root of the outer fragment.
C1_GroundsToDirect ==
  (/\ last.op = "compose"
   /\ FitsClosed(last.outer, last.interface, last.inner))
    => /\ last.ok
       /\ LET r == ground(last.frag, <<>>, heap)
          IN /\ r.ok
             /\ unfold(r.value, r.heap)
                  = DirectValue(last.outer, last.interface, last.inner)

\* the worked scenario of the test: H * F grounds to g, and so does the
\* value built by hand
C1_Worked ==
  (last.op = "compose" /\ last.outer = H /\ last.interface = I /\ last.inner = F)
    => /\ last.ok
       /\ unfold(ground(last.frag, <<>>, heap).value,
                 ground(last.frag, <<>>, heap).heap) = g
       /\ DirectValue(H, I, F) = g

(***************************************************************************)
(* C2                                                                      *)
(***************************************************************************)
\* the interface pairs every inner site of outer with an outer site of
\* inner and every outer link of inner with an inner link of outer
Pairs(outer, interface, inner) ==
  /\ \A s \in Keys(outer.inner_sites) :
       /\ s \in Keys(interface.sites)
       /\ Get(interface.sites, s) \in Keys(inner.outer_sites)
  /\ \A y \in Keys(inner.outer_links) :
       /\ y \in Keys(interface.links)
       /\ Get(interface.links, y) \in Keys(outer.inner_links)

\* C2: for three fragments coupled by interfaces that pair their ports, both
\* ways of associating the two compositions succeed, the two composites
\* carry the same ordered binding chain, and when the outermost fragment is
\* closed, grounding them with corresponding value maps gives structurally
\* equal values.
C2_Associative ==
  (/\ last.op = "associate"
   /\ Pairs(last.a, last.i1, last.b)
   /\ Pairs(last.b, last.i2, last.c))
    => /\ last.left.ok /\ last.right.ok
       /\ layers(last.left.frag) = layers(last.right.frag)
       /\ closed(last.a)
            => /\ last.lvalue.ok /\ last.rvalue.ok
               /\ last.lvalue.shown = last.rvalue.shown

\* the same, for the triples both associations of which compose
C2_WhereBothCompose ==
  (last.op = "associate" /\ last.left.ok /\ last.right.ok)
    => /\ layers(last.left.frag) = layers(last.right.frag)
       /\ last.lvalue.ok = last.rvalue.ok
       /\ last.lvalue.shown = last.rvalue.shown

\* one association composes and the other raises
C2_NeverOneSided ==
  last.op = "associate" => (last.left.ok <=> last.right.ok)

\* A, Bv, C along I0: (A * Bv) * C composes and grounds, Bv * C raises
C2_OneSided ==
  /\ last.op = "associate"
  /\ last.a = A /\ last.b = Bv /\ last.c = C /\ last.i1 = I0 /\ last.i2 = I0
  /\ last.left.ok /\ last.lvalue.ok
  /\ ~last.right.ok /\ last.right.err = "AssertionError"

(***************************************************************************)
(* C3                                                                      *)
(***************************************************************************)
\* C3: a second call of ground on the same closed fragment with the same
\* value map returns a value structurally equal to the one the first call
\* returned.
C3_Repeatable ==
  (last.op = "ground" /\ last.ok /\ last.again) => last.shown = last.before

\* ground(E, {}) twice in a row: the edge ed is linked to d once, then twice
C3_EdgeLinkedTwice ==
  /\ last.op = "ground" /\ last.ok /\ last.again
  /\ last.prog = E /\ last.vals = <<>>
  /\ last.before = <<"edge", "ed", <<"d">> >>
  /\ last.shown = <<"edge", "ed", <<"d", "d">> >>

\* ground(H * F, {}) returns g the first time and another value the second
C3_WorkedTwice ==
  /\ last.op = "ground" /\ last.ok /\ last.again
  /\ last.prog = cur /\ cur.name = "H*F"
  /\ last.before = g
  /\ last.shown # g

(***************************************************************************)
(* C4, C5                                                                  *)
(***************************************************************************)
\* the invariants of a fragment other than the order of its binding chain
OtherInvariants(f) ==
  /\ TypesOK(f)
  /\ UniqueNames(f)
  /\ Values(f.outer_sites) \subseteq Keys(f.bound_sites)
  /\ fvsof(f.root) \subseteq Keys(f.bound_sites)

\* the keys bound by the layers of ls strictly before layer i
BoundBefore(ls, i) == UNION {Keys(ls[j]) : j \in 1..(i - 1)}

\* forward-reference order: every layer reads interface references and keys
\* of strictly earlier layers only
ForwardOrder(f) ==
  \A i \in DOMAIN layers(f) :
    fvsofLayer(layers(f)[i]) \subseteq
      (intf_args(f) \cup BoundBefore(layers(f), i))

\* C4: given the other invariants, the constructor accepts its arguments
\* exactly when the binding chain is in forward-reference order, the keys of
\* all strictly earlier layers being in scope.
C4_ForwardOrder ==
  (last.op = "construct" /\ OtherInvariants(last.arg))
    => (last.ok <=> ForwardOrder(last.arg))

\* the three-layer chain whose bound_sites reads t, the key of the first
\* layer, is in forward-reference order and is rejected
C4_EarlierLayerRejected ==
  /\ last.op = "construct"
  /\ last.arg = Chain(Term("link", Node("a"), Edge("ea")),
                      Term("link", Node("a"), Edge("ea")),
                      Call(Kt), Call(Kq))
  /\ OtherInvariants(last.arg) /\ ForwardOrder(last.arg)
  /\ ~last.ok

\* a layer of f reads a key that the same layer or a later layer binds, or
\* a reference that is bound nowhere, or the root reads a reference that
\* bound_sites does not bind
OutOfScope(f) ==
  \/ \E i \in DOMAIN layers(f) : \E r \in fvsofLayer(layers(f)[i]) :
       \/ \E j \in i..Len(layers(f)) : r \in Keys(layers(f)[j])
       \/ r \notin intf_args(f) \cup BoundBefore(layers(f), i)
  \/ ~(fvsof(f.root) \subseteq Keys(f.bound_sites))

\* C5: the constructor rejects arguments in which the root or a layer reads
\* a name that is not yet in scope: a key of the same layer, a key of a
\* later layer (the outer-site references bound_sites binds included) or a
\* reference bound nowhere.
C5_ScopeRejected ==
  (last.op = "construct" /\ OutOfScope(last.arg)) => ~last.ok

\* bound_sites = {q: q()} reads its own key and the constructor accepts it
C5_SelfReferenceAccepted ==
  /\ last.op = "construct"
  /\ last.arg = Chain(Term("link", Node("a"), Edge("ea")),
                      Term("link", Node("a"), Edge("ea")),
                      Call(Kq), Call(Kq))
  /\ last.ok

\* a reference bound nowhere, a key of a later bound_terms layer and a key
\* of the same bound_terms layer are rejected
C5_OthersRejected ==
  (/\ last.op = "construct"
   /\ \E i \in DOMAIN last.arg.bound_terms :
        \E r \in fvsofLayer(last.arg.bound_terms[i]) :
        r = Kz \/ r = Ku \/ (r = Kt /\ i = 1))
    => ~last.ok

(***************************************************************************)
(* C6                                                                      *)
(***************************************************************************)
\* every name the interface mentions is a port of the fragment on its side
Declared(outer, interface, inner) ==
  /\ Keys(interface.sites) \subseteq Keys(outer.inner_sites)
  /\ Values(interface.sites) \subseteq Keys(inner.outer_sites)
  /\ Keys(interface.links) \subseteq Keys(inner.outer_links)
  /\ Values(interface.links) \subseteq Keys(outer.inner_links)

\* C6: compose fails, producing no fragment, whenever a name the interface
\* mentions is absent from the declared interface of the fragment on its
\* side.
C6_FailsOnAbsentName ==
  (/\ last.op = "compose"
   /\ ~Declared(last.outer, last.interface, last.inner))
    => ~last.ok /\ last.frag = NoFrag

\* what the code does instead: compose raises KeyError, producing no
\* fragment, exactly when the interface does not resolve a port the
\* composition couples: an inner site of outer that is no key of
\* interface.sites or whose value is no outer site of inner, or an outer
\* link of inner that is no key of interface.links or whose value is no
\* inner link of outer
C6_LookupsOnly ==
  last.op = "compose" =>
    /\ ~Pairs(last.outer, last.interface, last.inner)
         => ~last.ok /\ last.err = "KeyError" /\ last.frag = NoFrag
    /\ Pairs(last.outer, last.interface, last.inner) => last.err # "KeyError"

\* H and F along an interface without the site p2: compose raises
C6_MissingSiteFails ==
  /\ last.op = "compose"
  /\ last.outer = H /\ last.interface = IMissing /\ last.inner = F
  /\ ~Pairs(H, IMissing, F)
  /\ ~last.ok /\ last.err = "KeyError"

\* H and F along an interface with a site and a link neither of them has:
\* compose succeeds
C6_ExtraNamesIgnored ==
  /\ last.op = "compose"
  /\ last.outer = H /\ last.interface = IExtra /\ last.inner = F
  /\ ~Declared(H, IExtra, F)
  /\ last.ok /\ last.frag = compose(H, I, F).frag

(***************************************************************************)
(* C7                                                                      *)
(***************************************************************************)
\* C7: ground fails and returns no value for a fragment whose outer_links
\* is not empty, whatever the value map (empty, partial or covering every
\* inner port); closed is true exactly when outer_links is empty.
C7_ClosednessGate ==
  /\ (last.op = "ground" /\ Len(last.prog.outer_links) > 0)
       => ~last.ok /\ last.value = NoValue
  /\ \A f \in AtHand(GroundPool) : closed(f) <=> Len(f.outer_links) = 0

\* ground(B, vals) with a value for every inner port of B, which has the
\* outer link y: the call fails
C7_OpenFullMapFails ==
  /\ last.op = "ground"
  /\ last.prog = B /\ Len(B.outer_links) > 0
  /\ last.vals = FullVals(B) /\ Keys(ground_args(B)) \subseteq Keys(last.vals)
  /\ ~last.ok

Resolved(edges, layer) ==
  [i \in DOMAIN layer |-> <<layer[i][1], EvalSym(layer[i][2], edges)>>]

\* the content inner gives the site coupled to the inner site s of outer:
\* every outer link of inner stands for the inner link of outer the
\* interface couples it to, and bound edges are resolved
CoupledContent(outer, interface, inner, s) ==
  LET linked ==
        [i \in DOMAIN inner.outer_links |->
           <<inner.outer_links[i][2],
             Call(Get(outer.inner_links,
                      Get(interface.links, inner.outer_links[i][1])))>>]
      content ==
        Get(inner.bound_sites,
            Get(inner.outer_sites, Get(interface.sites, s)))
  IN EvalSym(EvalSym(content, linked),
             DictUnion(inner.bound_edges, outer.bound_edges))

\* one layer whose keys are the inner-site references of outer, in order
CouplingLayer(outer, interface, inner) ==
  [i \in DOMAIN outer.inner_sites |->
     <<outer.inner_sites[i][2],
       CoupledContent(outer, interface, inner, outer.inner_sites[i][1])>>]

\* the layers of bts, each resolved under the edge bindings of both operands
ResolvedLayers(outer, inner, bts) ==
  [k \in DOMAIN bts |->
     Resolved(DictUnion(inner.bound_edges, outer.bound_edges), bts[k])]

\* C10 as stated: the bound_terms of a composite are the resolved layers of
\* inner, then the coupling layer, then the layers of outer exactly as they
\* were in outer.
C10_OuterLayersKept ==
  (last.op = "compose" /\ last.ok) =>
    last.frag.bound_terms
      = ResolvedLayers(last.outer, last.inner, last.inner.bound_terms)
          \o <<CouplingLayer(last.outer, last.interface, last.inner)>>
          \o last.outer.bound_terms

\* C10: the bound_terms of a composite are, in this order, the layers of
\* inner, one coupling layer whose keys are the inner-site references of
\* outer, and the layers of outer, every expression of all three parts
\* resolved under the merged edge bindings.
C10_AllLayersResolved ==
  (last.op = "compose" /\ last.ok) =>
    last.frag.bound_terms
      = ResolvedLayers(last.outer, last.inner, last.inner.bound_terms)
          \o <<CouplingLayer(last.outer, last.interface, last.inner)>>
          \o ResolvedLayers(last.outer, last.inner, last.outer.bound_terms)

\* H3 * F: the layer of H3 that reads the outer link z comes last and reads
\* the edge e2 in the composite
C10_OuterLayerResolved ==
  /\ last.op = "compose" /\ last.ok
  /\ last.outer = H3 /\ last.inner = F
  /\ Len(last.frag.bound_terms) = 2
  /\ Keys(last.frag.bound_terms[1]) = {Hp0, Hp1, Hp2}
  /\ last.frag.bound_terms[2] # H3.bound_terms[1]
  /\ fvsofLayer(H3.bound_terms[1]) = {Hp0, Hp1, Hp2, Hz}
  /\ fvsofLayer(last.frag.bound_terms[2]) = {Hp0, Hp1, Hp2}

\* C * H4: the layer of the inner operand H4, which reads the inner link
\* x1, comes first and reads the edge e2 in the composite; the coupling
\* layer is empty, C having no inner site
C10_InnerLayerResolved ==
  /\ last.op = "compose" /\ last.ok
  /\ last.outer = C /\ last.inner = H4
  /\ Len(last.frag.bound_terms) = 2
  /\ last.frag.bound_terms[2] = <<>>
  /\ fvsofLayer(H4.bound_terms[1]) = {Hp1, Hx1}
  /\ fvsofLayer(last.frag.bound_terms[1]) = {Hp1}

(***************************************************************************)
(* C9                                                                      *)
(***************************************************************************)
\* C9: under the local runner link(x, y) is interpreted to a graph value
\* exactly when (x, y) is (node, edge) or (edge, node), and is the
\* expression link(x, y) for every other pair of arguments; merge, parallel
\* and nest are the expression op(x, y) when an argument is no backend
\* graph value; no call raises.
C9_LocalDispatch ==
  last.op = "local" =>
    /\ last.ok
    /\ last.sym = "link" =>
         IF \/ last.a[1] = "node" /\ last.b[1] = "edge"
            \/ last.a[1] = "edge" /\ last.b[1] = "node"
         THEN last.result = last.a /\ last.result[1] \in {"node", "edge"}
         ELSE last.result = <<"term", "link", last.a, last.b>>
    /\ (/\ last.sym \in {"merge", "parallel", "nest"}
        /\ \E x \in {last.a, last.b} :
             x[1] \notin {"node", "edge", "Merge", "Parallel"})
         => last.result = <<"term", last.sym, last.a, last.b>>

\* link(e0, v0): the edge is returned, linked to the node
C9_EdgeNodeInterpreted ==
  /\ last.op = "local" /\ last.sym = "link"
  /\ last.a = Edge("e0") /\ last.b = Node("v0")
  /\ last.result = Edge("e0")
  /\ last.shown = <<"edge", "e0", <<"v0">> >>

\* link(v0, v1) and link(e0, e1) stay expressions
C9_SameKindResidual ==
  /\ last.op = "local" /\ last.sym = "link"
  /\ last.a[1] = last.b[1] /\ last.a[1] \in {"node", "edge"}
  /\ last.result = <<"term", "link", last.a, last.b>>

(***************************************************************************)
(* C11                                                                     *)
(***************************************************************************)
\* the arguments compose hands to the constructor for its last call
Synthesized == composite(last.outer, last.interface, last.inner)

\* C11: for fragments the constructor accepted, the composites made earlier
\* in the session among them, and an interface under which every lookup of
\* compose resolves, the synthesized fragment passes the constructor:
\* every layer of it reads interface references of the composite and keys
\* of earlier layers only.
C11_InvariantPreserved ==
  (/\ last.op = "compose"
   /\ PostInit(last.outer) /\ PostInit(last.inner)
   /\ Pairs(last.outer, last.interface, last.inner))
    => /\ last.ok
       /\ PostInit(last.frag)
       /\ ForwardOrder(last.frag)

\* Hx, I, F: every lookup resolves and the synthesized fragment reads in
\* bound_sites the inner link x0 of Hx, which is no interface reference of
\* the composite and which no layer binds
C11_InnerLinkLeftBehind ==
  /\ last.op = "compose"
  /\ last.outer = Hx /\ last.interface = I /\ last.inner = F
  /\ PostInit(Hx) /\ PostInit(F) /\ Pairs(Hx, I, F)
  /\ ~last.ok /\ last.err = "AssertionError"
  /\ Hx0 \in fvsofLayer(Synthesized.bound_sites)
  /\ Hx0 \notin intf_args(Synthesized)
  /\ ~ForwardOrder(Synthesized)

\* the composites the session made all passed the constructor
C11_MadeOnesPass ==
  (last.op = "compose" /\ last.ok) => PostInit(last.frag)

(***************************************************************************)
(* C12                                                                     *)
(***************************************************************************)
\* the environment ground holds after the first i layers of prog
EnvAfter(prog, vals, hp, i) ==
  IF i = 0 THEN <<>>
  ELSE ground_layers(SubSeq(layers(prog), 1, i), ground_args(prog), vals,
                     <<>>, hp)[1]

\* the substitution under which layer j is evaluated; j = Len(layers) + 1
\* stands for the root
SubsAt(prog, vals, hp, j) ==
  EnvSubs(ground_args(prog), vals, EnvAfter(prog, vals, hp, j - 1))

\* the value of a key of layer i is bound in every later layer and in the
\* root, and in no environment of layer i or of an earlier layer
Accumulates(prog, vals, hp) ==
  LET ls == layers(prog) IN
  \A i \in DOMAIN ls : \A k \in Keys(ls[i]) :
    /\ \A j \in (i + 1)..(Len(ls) + 1) :
         /\ Has(SubsAt(prog, vals, hp, j), k)
         /\ Get(SubsAt(prog, vals, hp, j), k)
              = Get(EnvAfter(prog, vals, hp, i), k)
    /\ \A j \in 1..i : ~Has(EnvAfter(prog, vals, hp, j - 1), k)

\* the same for the layer directly after layer i only
NextLayerOnly(prog, vals, hp) ==
  LET ls == layers(prog) IN
  \A i \in DOMAIN ls : \A k \in Keys(ls[i]) :
    /\ Has(SubsAt(prog, vals, hp, i + 1), k)
    /\ Get(SubsAt(prog, vals, hp, i + 1), k)
         = Get(EnvAfter(prog, vals, hp, i), k)
    /\ \A j \in 1..i : ~Has(EnvAfter(prog, vals, hp, j - 1), k)
    /\ \A j \in (i + 2)..(Len(ls) + 1) :
         ~Has(EnvAfter(prog, vals, hp, j - 1), k)

\* C12: in every ground call that returns, the layers are evaluated oldest
\* first and then the root, and the value computed for a key of layer i is
\* available to every later layer and to the root, and to no layer up to i.
C12_EnvAccumulates ==
  [][(last'.op = "ground" /\ last'.ok)
       => Accumulates(last'.prog, last'.vals, heap)]_vars

\* what the loop does: a value is available to the layer directly after
\* its own (the root after bound_sites) and to no other
C12_EnvReplaced ==
  [][(last'.op = "ground" /\ last'.ok)
       => NextLayerOnly(last'.prog, last'.vals, heap)]_vars

\* ground(Sh, {p: w}) on fresh objects: the second layer reads the node a
\* the first layer computed for p, bound_sites reads the caller's w
C12_LaterLayerReadsCaller ==
  /\ last.op = "ground" /\ last.ok /\ last.prog = Sh /\ n = 1
  /\ PostInit(Sh)
  /\ last.shown =
       <<"Parallel",
         <<"node", "c", <<>>, << <<"node", "a", <<"ea">>, <<>> >> >> >>,
         <<"node", "w", <<>>, <<>> >> >>

(***************************************************************************)
(* C13                                                                     *)
(***************************************************************************)
\* the references both operands of the last compose bind to an edge, with
\* different edges
Collisions ==
  {k \in Keys(last.inner.bound_edges) \cap Keys(last.outer.bound_edges) :
     Get(last.inner.bound_edges, k) # Get(last.outer.bound_edges, k)}

\* a reference only one operand binds keeps the edge of that operand
SingleKept ==
  /\ Keys(last.frag.bound_edges)
       = Keys(last.inner.bound_edges) \cup Keys(last.outer.bound_edges)
  /\ \A k \in Keys(last.inner.bound_edges) \ Keys(last.outer.bound_edges) :
       Get(last.frag.bound_edges, k) = Get(last.inner.bound_edges, k)
  /\ \A k \in Keys(last.outer.bound_edges) \ Keys(last.inner.bound_edges) :
       Get(last.frag.bound_edges, k) = Get(last.outer.bound_edges, k)

\* C13 as stated: a reference both operands bind, with different edges,
\* keeps the edge of inner in the composite; a reference one operand binds
\* keeps the edge of that operand.
C13_InnerWins ==
  (last.op = "compose" /\ last.ok)
    => /\ SingleKept
       /\ \A k \in Collisions :
            Get(last.frag.bound_edges, k) = Get(last.inner.bound_edges, k)

\* C13, amended: a reference both operands bind, with different edges,
\* keeps the edge of outer, the right operand of the union, in the
\* composite; a reference one operand binds keeps the edge of that operand.
C13_OuterWins ==
  (last.op = "compose" /\ last.ok)
    => /\ SingleKept
       /\ \A k \in Collisions :
            Get(last.frag.bound_edges, k) = Get(last.outer.bound_edges, k)

\* compose(H, I, Fe): both bind x0, H to e0 and Fe to e1; the composite
\* binds x0 to e0 and links v1 to e0 in the coupling layer
C13_CollisionComposed ==
  /\ last.op = "compose" /\ last.ok
  /\ last.outer = H /\ last.interface = I /\ last.inner = Fe
  /\ Collisions = {Hx0}
  /\ Get(last.frag.bound_edges, Hx0) = Edge("e0")
  /\ Get(last.frag.bound_terms[1], Hp0)
       = Term("link", Term("link", Node("v1"), Edge("e0")), Edge("e0"))

(***************************************************************************)
(* C14                                                                     *)
(***************************************************************************)
\* the references layer j of prog reads (the root for j = Len(layers) + 1)
ReadsAt(prog, j) ==
  IF j = Len(layers(prog)) + 1 THEN fvsof(prog.root)
  ELSE fvsofLayer(layers(prog)[j])

\* the value the caller passed for the inner port whose reference is r
CallerValue(prog, vals, r) ==
  LET args == ground_args(prog)
      name == CHOOSE k \in Keys(args) : Get(args, k) = r
  IN Get(vals, name)

\* every reference a layer reads is replaced by the value bound to that
\* very reference: the value the layer before computed for it, or else the
\* value the caller passed for the inner port it belongs to
IdentityKeyed(prog, vals, hp) ==
  \A j \in 1..(Len(layers(prog)) + 1) : \A r \in ReadsAt(prog, j) :
    LET env == EnvAfter(prog, vals, hp, j - 1)
        subs == SubsAt(prog, vals, hp, j)
    IN IF Has(env, r)
       THEN Has(subs, r) /\ Get(subs, r) = Get(env, r)
       ELSE r \in Values(ground_args(prog))
              => /\ Has(subs, r)
                 /\ Get(subs, r) = CallerValue(prog, vals, r)

\* C14: in every ground call that returns, bindings are keyed by reference
\* identity: of two distinct references with the same name, each one is
\* replaced by the value bound to that very reference.
C14_KeyedByIdentity ==
  [][(last'.op = "ground" /\ last'.ok)
       => IdentityKeyed(last'.prog, last'.vals, heap)]_vars

\* ground(Nm, {p: w}) on fresh objects: the bound reference named p takes
\* the keyword p, the inner site p is left as it was, and the value
\* returned is an expression that still calls it
C14_SiteLeftUnbound ==
  /\ last.op = "ground" /\ last.ok /\ last.prog = Nm /\ n = 1
  /\ PostInit(Nm)
  /\ Np # Nt /\ Np.name = Nt.name
  /\ last.value = Term("nest", Node("b2"), Call(Np))

(***************************************************************************)
(* C15                                                                     *)
(***************************************************************************)
\* C15: for a fragment the constructor accepts that is closed, and a value
\* map with a value for every inner site and inner link, the value ground
\* returns calls no reference: every reference was replaced by a value.
C15_NoUnresolved ==
  (/\ last.op = "ground" /\ last.ok
   /\ PostInit(last.prog) /\ closed(last.prog)
   /\ Keys(ground_args(last.prog)) \subseteq Keys(last.vals))
    => fvsof(last.value) = {}

\* ground(Sr, {}): the constructor accepted Sr, bound_sites reads its own
\* key q, which no environment binds, and the value returned calls q
C15_SelfReferenceReturned ==
  /\ last.op = "ground" /\ last.ok /\ last.prog = Sr /\ n = 1
  /\ PostInit(Sr) /\ closed(Sr) /\ ground_args(Sr) = <<>>
  /\ last.value = Term("nest", Node("d"), Call(Rq))
  /\ fvsof(last.value) = {Rq}

\* the fragments whose layers read inner ports and keys of the layer
\* directly before only, under names that differ, ground to a value that
\* calls no reference
C15_TestFragmentsResolved ==
  (last.op = "ground" /\ last.ok /\ last.prog \notin {Sr, Nm})
    => fvsof(last.value) = {}

====
